---- MODULE Spec2Model ----
(***************************************************************************)
(* Model of the bill extraction run of app.py: upload_bill hands the text  *)
(* of a document to parse_bill_text, which fills billed_amount,            *)
(* allowed_amount, insurer_paid and printed_owe in three passes (keyword   *)
(* aggregation, detail-line inference, fallback arithmetic) and derives    *)
(* should_owe and estimated_overcharge.                                    *)
(*                                                                         *)
(* Money is held in thousandths of a dollar (mills), so that every value   *)
(* the code computes (a 2-decimal amount times 0.65, 0.8 or 0.2) is an     *)
(* integer before it is rounded; round(x, 2) is RoundCents.  The amounts   *)
(* of the documents are chosen off the rounding ties of 0.65 * x and       *)
(* 0.13 * x, where Python's round on the binary float is the exact         *)
(* round-to-nearest.                                                       *)
(*                                                                         *)
(* A document is a sequence of lines; a line is the set of keyword groups  *)
(* it matches, its date token, whether it has a code token, whether it has *)
(* other words, and its amount-shaped tokens in left-to-right order.       *)
(***************************************************************************)
EXTENDS Integers, Sequences, FiniteSets

(* ---------------- bounds of the model ---------------- *)
MaxLines == 2
MaxAmts == 5

(* ---------------- program constants ---------------- *)
AmountLimit == 1000000
PoolCeiling == 50000
MarkupWindow == 5

Mills(dollars) == dollars * 1000

Max2(a, b) == IF a >= b THEN a ELSE b

RECURSIVE SeqMax(_)
SeqMax(s) == IF Len(s) = 1 THEN s[1] ELSE Max2(s[1], SeqMax(Tail(s)))

RECURSIVE SeqMin(_)
SeqMin(s) ==
    IF Len(s) = 1 THEN s[1]
    ELSE LET m == SeqMin(Tail(s)) IN IF s[1] <= m THEN s[1] ELSE m

InSeq(v, s) == \E i \in 1..Len(s) : s[i] = v

(* round(x, 2) of x = n/d mills: the nearest whole cent, a tie to the even cent. *)
(* The factors 0.65, 0.2, 0.8 and 0.65 * 0.2 are passed as the reduced        *)
(* fractions 13/20, 1/5, 4/5 and 13/100.                                      *)
RoundCents(n, d) ==
    LET unit == 10 * d
        q == n \div unit
        r == n % unit
        up == \/ 2 * r > unit
              \/ 2 * r = unit /\ q % 2 = 1
    IN  10 * (IF up THEN q + 1 ELSE q)

(* ---------------- tokens and lines ---------------- *)
(* An amount-shaped token: an optional "$", the whole dollars written with *)
(* or without thousands commas, a "." or a "," and two fraction digits.    *)
Tok(cur, whole, grouped, sep, frac) ==
    [cur |-> cur, whole |-> whole, grouped |-> grouped, sep |-> sep, frac |-> frac]

(* float(m.replace(",", "")) of the matched digits, in mills *)
TokValue(t) == Mills(t.whole) + 10 * t.frac

InRange(v) == 0 < v /\ v < Mills(AmountLimit)

dollar_amount_pattern(t) == t.cur /\ t.sep = "."
plain_amount_pattern(t) == t.sep = "."
comma_decimal_pattern(t) == t.sep = ","

PatternMatches(pat, t) ==
    CASE pat = "dollar" -> dollar_amount_pattern(t)
      [] pat = "plain" -> plain_amount_pattern(t)
      [] pat = "comma" -> comma_decimal_pattern(t)

(* re.findall(pattern, line), each match converted to its value *)
RECURSIVE Matches(_, _)
Matches(toks, pat) ==
    IF toks = <<>> THEN <<>>
    ELSE (IF PatternMatches(pat, Head(toks)) THEN <<TokValue(Head(toks))>> ELSE <<>>)
         \o Matches(Tail(toks), pat)

RECURSIVE KeepInRange(_)
KeepInRange(vals) ==
    IF vals = <<>> THEN <<>>
    ELSE (IF InRange(Head(vals)) THEN <<Head(vals)>> ELSE <<>>)
         \o KeepInRange(Tail(vals))

RECURSIVE AppendNew(_, _)
AppendNew(plain_vals, comma_vals) ==
    IF comma_vals = <<>> THEN plain_vals
    ELSE LET v == Head(comma_vals)
         IN  AppendNew(IF InRange(v) /\ ~InSeq(v, plain_vals)
                         THEN Append(plain_vals, v) ELSE plain_vals,
                       Tail(comma_vals))

RECURSIVE Without(_, _)
Without(vals, drop) ==
    IF vals = <<>> THEN <<>>
    ELSE (IF InSeq(Head(vals), drop) THEN <<>> ELSE <<Head(vals)>>)
         \o Without(Tail(vals), drop)

DollarVals(line) == KeepInRange(Matches(line.toks, "dollar"))

PlainVals(line) ==
    AppendNew(KeepInRange(Matches(line.toks, "plain")),
              Matches(line.toks, "comma"))

CombineVals(dollar_vals, plain_vals) == dollar_vals \o Without(plain_vals, dollar_vals)

extract_amounts(line, prefer_dollar) ==
    IF prefer_dollar THEN DollarVals(line)
    ELSE CombineVals(DollarVals(line), PlainVals(line))

(* a run of 4 or 5 digits between word boundaries inside an amount token *)
TokHasCodeDigits(t) == ~t.grouped /\ t.whole >= 1000 /\ t.whole <= 99999

HasDate(line) == line.date # "none"

HasCode(line) ==
    \/ line.code
    \/ line.date = "long"
    \/ \E i \in 1..Len(line.toks) : TokHasCodeDigits(line.toks[i])

IsBlank(line) ==
    /\ ~line.other /\ line.kw = {} /\ line.date = "none" /\ ~line.code
    /\ line.toks = <<>>

(* ---------------- parse_bill_text: preprocessing ---------------- *)
(* text.splitlines(), stripped, the empty ones dropped *)
RECURSIVE NonBlank(_)
NonBlank(raw) ==
    IF raw = <<>> THEN <<>>
    ELSE (IF IsBlank(Head(raw)) THEN <<>> ELSE <<Head(raw)>>) \o NonBlank(Tail(raw))

(* variant: "not text", without the strip *)
TextIsEmpty(raw) == raw = <<>>

(* not text.strip() *)
StripIsEmpty(raw) == \A i \in 1..Len(raw) : IsBlank(raw[i])

RECURSIVE AllAmounts(_)
AllAmounts(ls) ==
    IF ls = <<>> THEN <<>>
    ELSE extract_amounts(Head(ls), FALSE) \o AllAmounts(Tail(ls))

(* ---------------- pass 1: keyword aggregation lines ---------------- *)
(* variant: the last proposal wins *)
KeepLast(current, cand) == cand

KeepLarger(current, cand) == IF cand > current THEN cand ELSE current

SlotProposal(line, group, current, vals) ==
    IF group \in line.kw THEN KeepLarger(current, SeqMax(vals)) ELSE current

OweCandidate(line, vals) ==
    IF "owed" \notin line.kw THEN <<>>
    ELSE LET dollar_vals == extract_amounts(line, TRUE)
         IN  IF dollar_vals # <<>>
               THEN <<[typ |-> "dollar", amt |-> SeqMax(dollar_vals)]>>
               ELSE <<[typ |-> "plain", amt |-> SeqMax(vals)]>>

AggregateLine(acc, line) ==
    LET vals == extract_amounts(line, FALSE)
    IN  IF vals = <<>> THEN acc
        ELSE [billed |-> SlotProposal(line, "billed", acc.billed, vals),
              allowed |-> SlotProposal(line, "allowed", acc.allowed, vals),
              paid |-> SlotProposal(line, "paid", acc.paid, vals),
              owe |-> acc.owe \o OweCandidate(line, vals)]

RECURSIVE AggregateLines(_, _)
AggregateLines(acc, ls) ==
    IF ls = <<>> THEN acc
    ELSE AggregateLines(AggregateLine(acc, Head(ls)), Tail(ls))

RECURSIVE AmountsOfType(_, _)
AmountsOfType(cands, typ) ==
    IF cands = <<>> THEN <<>>
    ELSE (IF Head(cands).typ = typ THEN <<Head(cands).amt>> ELSE <<>>)
         \o AmountsOfType(Tail(cands), typ)

(* variant: the largest owed candidate, whatever its notation *)
SelectLargestOwe(cands, current) ==
    IF cands = <<>> THEN current
    ELSE Max2(SeqMax(AmountsOfType(cands, "dollar") \o <<0>>),
              SeqMax(AmountsOfType(cands, "plain") \o <<0>>))

SelectPrintedOwe(cands, current) ==
    LET dollar_candidates == AmountsOfType(cands, "dollar")
        plain_candidates == AmountsOfType(cands, "plain")
    IN  IF dollar_candidates # <<>> THEN SeqMax(dollar_candidates)
        ELSE IF plain_candidates # <<>> THEN SeqMax(plain_candidates)
        ELSE current

(* ---------------- pass 2: the first detail line ---------------- *)
IsDetailLine(line) ==
    HasDate(line) /\ HasCode(line) /\ Len(extract_amounts(line, FALSE)) >= 2

RECURSIVE DetailLines(_)
DetailLines(ls) ==
    IF ls = <<>> THEN <<>>
    ELSE (IF IsDetailLine(Head(ls)) THEN <<Head(ls)>> ELSE <<>>) \o DetailLines(Tail(ls))

FromEnd(vals, k) == vals[Len(vals) + 1 - k]

(* variant: a later pass overwrites the slot *)
FillAlways(current, value) == value

FillIfZero(current, value) == IF current = 0 THEN value ELSE current

DetailBilled(current, vals) == FillIfZero(current, SeqMax(vals))

DetailOwe(current, vals) == FillIfZero(current, FromEnd(vals, 1))

DetailPaid(current, vals) ==
    IF Len(vals) >= 3 THEN FillIfZero(current, FromEnd(vals, 2)) ELSE current

(* variant: the allowed amount is read from the second column *)
DetailAllowedSecond(current, vals) ==
    IF Len(vals) >= 4 THEN FillIfZero(current, vals[2]) ELSE current

DetailAllowed(current, vals) ==
    IF Len(vals) >= 4 THEN FillIfZero(current, FromEnd(vals, 3)) ELSE current

(* ---------------- pass 3: fallback arithmetic ---------------- *)
RECURSIVE Below(_, _)
Below(vals, limit) ==
    IF vals = <<>> THEN <<>>
    ELSE (IF Head(vals) < limit THEN <<Head(vals)>> ELSE <<>>) \o Below(Tail(vals), limit)

ReasonableAmounts(ls) == Below(AllAmounts(ls), Mills(PoolCeiling))

RECURSIVE InWindow(_, _)
InWindow(pool, owe) ==
    IF pool = <<>> THEN <<>>
    ELSE (IF Head(pool) >= owe /\ Head(pool) <= owe * MarkupWindow
            THEN <<Head(pool)>> ELSE <<>>) \o InWindow(Tail(pool), owe)

(* the pool without one occurrence of v *)
RECURSIVE RemoveOne(_, _)
RemoveOne(pool, v) ==
    IF pool = <<>> THEN <<>>
    ELSE IF Head(pool) = v THEN Tail(pool)
    ELSE <<Head(pool)>> \o RemoveOne(Tail(pool), v)

(* sorted(pool, reverse=True)[1] *)
SecondLargest(pool) == SeqMax(RemoveOne(pool, SeqMax(pool)))

(* variant: the largest value of the markup window *)
FallbackBilledLargest(billed, owe, pool) ==
    IF pool = <<>> \/ billed # 0 THEN billed
    ELSE IF owe > 0
           THEN LET candidates == InWindow(pool, owe)
                IN  IF candidates # <<>> THEN SeqMax(candidates) ELSE owe
           ELSE SeqMax(pool)

(* variant: without a printed_owe, the smallest value of the pool *)
FallbackBilledSmallest(billed, owe, pool) ==
    IF pool = <<>> \/ billed # 0 THEN billed
    ELSE IF owe > 0
           THEN LET candidates == InWindow(pool, owe)
                IN  IF candidates # <<>> THEN SeqMin(candidates) ELSE owe
           ELSE SeqMin(pool)

FallbackBilled(billed, owe, pool) ==
    IF pool = <<>> \/ billed # 0 THEN billed
    ELSE IF owe > 0
           THEN LET candidates == InWindow(pool, owe)
                IN  IF candidates # <<>> THEN SeqMin(candidates) ELSE owe
           ELSE SeqMax(pool)

FallbackOwe(owe, billed, pool) ==
    IF pool = <<>> \/ owe # 0 THEN owe
    ELSE IF Len(pool) >= 2 THEN SecondLargest(pool) ELSE billed

(* variant: the coinsurance complement 0.8 in place of the 0.65 ratio *)
EstimateAllowedByCoinsurance(allowed, billed) ==
    IF allowed = 0 /\ billed > 0 THEN RoundCents(billed * 4, 5) ELSE allowed

EstimateAllowed(allowed, billed) ==
    IF allowed = 0 /\ billed > 0 THEN RoundCents(billed * 13, 20) ELSE allowed

(* max(0.0, allowed_amount * (1 - coinsurance_rate)), kept unrounded *)
EstimatePaid(paid, allowed) ==
    IF paid = 0 /\ allowed > 0 THEN Max2(0, (allowed * 4) \div 5) ELSE paid

LastResortOwe(owe, billed) == IF owe = 0 THEN billed ELSE owe

(* ---------------- should_owe, overcharge, issues, result ---------------- *)
(* variant: the allowed amount is used whenever it is positive *)
ShouldOweFromAllowed(allowed, billed) ==
    IF allowed > 0 THEN RoundCents(allowed, 5)
    ELSE IF billed > 0 THEN RoundCents(billed * 13, 100)
    ELSE 0

ShouldOwe(allowed, billed) ==
    IF allowed > 0 /\ billed > allowed THEN RoundCents(allowed, 5)
    ELSE IF billed > 0 THEN RoundCents(billed * 13, 100)
    ELSE 0

(* variant: the difference without the floor at 0 *)
OverchargeNoFloor(owe, should) == owe - should

Overcharge(owe, should) == Max2(0, owe - should)

Issues(allowed, billed, overcharge) ==
    (IF allowed > 0 /\ 2 * billed > 3 * allowed THEN <<"billed_high">> ELSE <<>>)
    \o (IF overcharge > 0 THEN <<"owe_high">> ELSE <<>>)

Summary(billed, allowed, paid, owe, should, overcharge, iss) ==
    [billed_amount |-> RoundCents(billed, 1),
     allowed_amount |-> RoundCents(allowed, 1),
     insurer_paid |-> RoundCents(paid, 1),
     printed_owe |-> RoundCents(owe, 1),
     should_owe |-> RoundCents(should, 1),
     estimated_overcharge |-> RoundCents(overcharge, 1),
     issues |-> iss]

(* ---------------- the documents of the model ---------------- *)
Cur(whole) == Tok(TRUE, whole, FALSE, ".", 0)
CurGrouped(whole) == Tok(TRUE, whole, TRUE, ".", 0)
Plain(whole) == Tok(FALSE, whole, FALSE, ".", 0)
PlainCents(whole, frac) == Tok(FALSE, whole, FALSE, ".", frac)
CommaDecimal(whole) == Tok(FALSE, whole, FALSE, ",", 0)

Line(kw, date, code, toks) ==
    [kw |-> kw, date |-> date, code |-> code, other |-> TRUE, toks |-> toks]

BlankLine ==
    [kw |-> {}, date |-> "none", code |-> FALSE, other |-> FALSE, toks |-> <<>>]

SeqsBetween(S, lo, hi) == UNION {[1..k -> S] : k \in lo..hi}

KeywordChoices ==
    {{}, {"billed"}, {"owed"}, {"allowed"}, {"paid"}, {"billed", "owed"}}

KeywordLineAmounts ==
    { <<>>,
      <<Cur(250)>>,
      <<Plain(300)>>,
      <<CurGrouped(1400)>>,
      <<CurGrouped(60000)>>,
      <<Plain(300), Cur(250)>>,
      <<CommaDecimal(900), Cur(0)>>,
      <<PlainCents(1, 1)>> }

KeywordLines ==
    {Line(kw, "none", FALSE, toks) : kw \in KeywordChoices, toks \in KeywordLineAmounts}
      \cup {Line({}, "long", FALSE, <<Plain(1400), Plain(300), Cur(250)>>)}

KeywordDocs == SeqsBetween(KeywordLines \cup {BlankLine}, 0, MaxLines)

DetailAmounts == {Cur(180), Cur(900), Plain(1400), CommaDecimal(620)}

DetailShapes == {<<"short", FALSE>>, <<"short", TRUE>>, <<"long", FALSE>>}

DetailCandidateLines ==
    {Line({}, shape[1], shape[2], toks) :
        shape \in DetailShapes, toks \in SeqsBetween(DetailAmounts, 2, MaxAmts)}

LeadingLines ==
    { Line({}, "none", FALSE, <<>>),
      Line({}, "long", FALSE, <<Plain(300), Cur(250)>>),
      Line({"owed"}, "none", FALSE, <<Cur(250)>>),
      Line({"billed", "paid"}, "none", FALSE, <<CurGrouped(60000)>>) }

DetailDocs ==
    {<<line>> : line \in DetailCandidateLines}
      \cup {<<lead>> \o <<line>> : lead \in LeadingLines, line \in DetailCandidateLines}

(* ---------------- the run: upload_bill calling parse_bill_text ---------------- *)
VARIABLES text, lines, pc, response, billed_amount, allowed_amount, insurer_paid,
          printed_owe, should_owe, estimated_overcharge, result, history

vars == <<text, lines, pc, response, billed_amount, allowed_amount, insurer_paid,
          printed_owe, should_owe, estimated_overcharge, result, history>>

Slots(billed, allowed, paid, owe) ==
    [billed_amount |-> billed, allowed_amount |-> allowed,
     insurer_paid |-> paid, printed_owe |-> owe]

InitWith(docs) ==
    /\ text \in docs
    /\ lines = <<>>
    /\ pc = "upload"
    /\ response = "none"
    /\ billed_amount = 0
    /\ allowed_amount = 0
    /\ insurer_paid = 0
    /\ printed_owe = 0
    /\ should_owe = 0
    /\ estimated_overcharge = 0
    /\ result = <<>>
    /\ history = <<>>

Init == InitWith(KeywordDocs)

InitDetail == InitWith(DetailDocs \cup {<<>>, <<BlankLine>>})

(* upload_bill: the extracted text is empty or whitespace-only *)
UploadNoText ==
    /\ pc = "upload"
    /\ StripIsEmpty(text)
    /\ pc' = "done"
    /\ response' = "no_text_error"
    /\ UNCHANGED <<text, lines, billed_amount, allowed_amount, insurer_paid,
                   printed_owe, should_owe, estimated_overcharge, result, history>>

(* upload_bill calls parse_bill_text, which splits the text into its lines *)
UploadParse ==
    /\ pc = "upload"
    /\ ~StripIsEmpty(text)
    /\ lines' = NonBlank(text)
    /\ pc' = "aggregate"
    /\ UNCHANGED <<text, response, billed_amount, allowed_amount, insurer_paid,
                   printed_owe, should_owe, estimated_overcharge, result, history>>

KeywordPass ==
    /\ pc = "aggregate"
    /\ \E acc \in {AggregateLines([billed |-> billed_amount, allowed |-> allowed_amount,
                                   paid |-> insurer_paid, owe |-> <<>>], lines)} :
           /\ billed_amount' = acc.billed
           /\ allowed_amount' = acc.allowed
           /\ insurer_paid' = acc.paid
           /\ printed_owe' = SelectPrintedOwe(acc.owe, printed_owe)
    /\ history' = Append(history,
                         Slots(billed_amount', allowed_amount', insurer_paid', printed_owe'))
    /\ pc' = "detail"
    /\ UNCHANGED <<text, lines, response, should_owe, estimated_overcharge, result>>

(* the amounts of detail_lines[0], or none when there is no detail line *)
FirstDetailVals(ls) ==
    LET detail_lines == DetailLines(ls)
    IN  IF detail_lines = <<>> THEN <<>> ELSE extract_amounts(detail_lines[1], FALSE)

DetailPass ==
    /\ pc = "detail"
    /\ \E vals \in {FirstDetailVals(lines)} :
           IF vals # <<>>
             THEN /\ billed_amount' = DetailBilled(billed_amount, vals)
                  /\ printed_owe' = DetailOwe(printed_owe, vals)
                  /\ insurer_paid' = DetailPaid(insurer_paid, vals)
                  /\ allowed_amount' = DetailAllowed(allowed_amount, vals)
             ELSE UNCHANGED <<billed_amount, printed_owe, insurer_paid, allowed_amount>>
    /\ history' = Append(history,
                         Slots(billed_amount', allowed_amount', insurer_paid', printed_owe'))
    /\ pc' = "fallback"
    /\ UNCHANGED <<text, lines, response, should_owe, estimated_overcharge, result>>

FallbackPass ==
    /\ pc = "fallback"
    /\ \E pool \in {ReasonableAmounts(lines)} :
           /\ billed_amount' = FallbackBilled(billed_amount, printed_owe, pool)
           /\ printed_owe' = LastResortOwe(FallbackOwe(printed_owe, billed_amount', pool),
                                           billed_amount')
    /\ allowed_amount' = EstimateAllowed(allowed_amount, billed_amount')
    /\ insurer_paid' = EstimatePaid(insurer_paid, allowed_amount')
    /\ history' = Append(history,
                         Slots(billed_amount', allowed_amount', insurer_paid', printed_owe'))
    /\ pc' = "derive"
    /\ UNCHANGED <<text, lines, response, should_owe, estimated_overcharge, result>>

Derive ==
    /\ pc = "derive"
    /\ should_owe' = ShouldOwe(allowed_amount, billed_amount)
    /\ estimated_overcharge' = Overcharge(printed_owe, should_owe')
    /\ result' = <<Summary(billed_amount, allowed_amount, insurer_paid, printed_owe,
                           should_owe', estimated_overcharge',
                           Issues(allowed_amount, billed_amount, estimated_overcharge'))>>
    /\ response' = "summary"
    /\ pc' = "done"
    /\ UNCHANGED <<text, lines, billed_amount, allowed_amount, insurer_paid,
                   printed_owe, history>>

Next ==
    \/ UploadNoText
    \/ UploadParse
    \/ KeywordPass
    \/ DetailPass
    \/ FallbackPass
    \/ Derive

Spec == Init /\ [][Next]_vars

SpecDetail == InitDetail /\ [][Next]_vars

(* ================= the claims ================= *)
Done == pc = "done" /\ response = "summary" /\ Len(result) = 1
Final == result[1]
AfterKeyword == history[1]
AfterDetail == history[2]
AfterFallback == history[3]
SlotNames == {"billed_amount", "allowed_amount", "insurer_paid", "printed_owe"}

Elems(s) == {s[i] : i \in 1..Len(s)}
Largest(S) == CHOOSE x \in S : \A y \in S : y <= x
Smallest(S) == CHOOSE x \in S : \A y \in S : x <= y
LargestOrZero(S) == IF S = {} THEN 0 ELSE Largest(S)
Candidates(line) == extract_amounts(line, FALSE)
LinesOf(group) ==
    {i \in 1..Len(lines) : group \in lines[i].kw /\ Candidates(lines[i]) # <<>>}
NoKeywordLine == \A i \in 1..Len(lines) : lines[i].kw = {}
NoDetailLine == \A i \in 1..Len(lines) : ~IsDetailLine(lines[i])
Pool == {v \in UNION {Elems(Candidates(lines[i])) : i \in 1..Len(lines)} :
            v < Mills(PoolCeiling)}

(* C1: in every returned summary, estimated_overcharge equals                 *)
(* round(max(0, printed_owe - should_owe), 2) of the same summary's values.   *)
C1_OverchargeIdentity ==
    Done => Final.estimated_overcharge
              = RoundCents(Max2(0, Final.printed_owe - Final.should_owe), 1)

(* C1 witness: a summary whose should_owe exceeds a positive printed_owe, so  *)
(* that the floor at 0 decides the overcharge.                                *)
C1_Witness ==
    Done /\ Final.printed_owe > 0 /\ Final.should_owe > Final.printed_owe

(* the text is empty or made of whitespace-only lines *)
C2_WhitespaceOnly == \A i \in 1..Len(text) : IsBlank(text[i])

(* C2: an empty or whitespace-only text ends in the no-text error, no pass    *)
(* runs on it and no summary is produced; any other text ends in a summary.   *)
C2_NoTextIsDistinct ==
    /\ C2_WhitespaceOnly =>
          /\ pc \in {"upload", "done"}
          /\ lines = <<>> /\ history = <<>> /\ result = <<>>
          /\ pc = "done" => response = "no_text_error"
    /\ ~C2_WhitespaceOnly /\ pc = "done" => response = "summary" /\ Len(result) = 1

(* C2 witness: a finished run on a text made of whitespace-only lines.        *)
C2_Witness ==
    pc = "done" /\ Len(text) > 0 /\ C2_WhitespaceOnly /\ response = "no_text_error"

(* C3: a slot that is non-zero at the end of a pass has the same value at the *)
(* end of every later pass and in the returned summary; a later pass changes  *)
(* only slots that were zero.                                                 *)
C3_PriorityCascade ==
    \A f \in SlotNames :
        /\ \A i, j \in 1..Len(history) :
              i < j /\ history[i][f] # 0 => history[j][f] = history[i][f]
        /\ Done => \A i \in 1..Len(history) :
              history[i][f] # 0 => Final[f] = RoundCents(history[i][f], 1)

(* C3 witness: the keyword pass set printed_owe, the first detail line ends   *)
(* in another amount, and the later passes filled slots that were zero.       *)
C3_Witness ==
    /\ Done
    /\ AfterKeyword.printed_owe # 0
    /\ FirstDetailVals(lines) # <<>>
    /\ FromEnd(FirstDetailVals(lines), 1) # AfterKeyword.printed_owe
    /\ AfterKeyword.billed_amount = 0 /\ AfterDetail.billed_amount # 0
    /\ AfterDetail.allowed_amount = 0 /\ AfterFallback.allowed_amount # 0

(* C4: with no keyword line, when the first detail line has n >= 4 amount     *)
(* candidates c1..cn, the summary has billed_amount = max(c), printed_owe =   *)
(* cn, insurer_paid = c(n-1), allowed_amount = c(n-2), and the fallback pass  *)
(* leaves the four slots as the detail pass set them.                         *)
C4_FourColumnMapping ==
    Done /\ NoKeywordLine /\ Len(FirstDetailVals(lines)) >= 4 =>
        LET c == FirstDetailVals(lines)
            n == Len(c)
        IN  /\ Final.billed_amount = Largest(Elems(c))
            /\ Final.printed_owe = c[n]
            /\ Final.insurer_paid = c[n - 1]
            /\ Final.allowed_amount = c[n - 2]
            /\ AfterFallback = AfterDetail

(* C4 witness: a finished run whose first detail line follows a line that is  *)
(* no detail line, does not start with its first candidate, and has five      *)
(* candidates, the last three distinct and the second not the third.          *)
C4_Witness ==
    /\ Done /\ NoKeywordLine /\ Len(lines) = 2 /\ ~IsDetailLine(lines[1])
    /\ IsDetailLine(lines[2]) /\ ~lines[2].toks[1].cur
    /\ LET c == FirstDetailVals(lines)
       IN  /\ Len(c) = 5
           /\ c[3] # c[4] /\ c[4] # c[5] /\ c[3] # c[5] /\ c[2] # c[3]

(* C5: when some owed line has a currency-marked candidate, printed_owe is    *)
(* the largest currency-marked candidate over the owed lines, even if an owed *)
(* line has a larger plain candidate; otherwise, when some owed line has a    *)
(* candidate, the keyword pass sets printed_owe to the largest candidate of   *)
(* the owed lines.                                                            *)
C5_CurrencyMarkedPreferred ==
    LET owed == LinesOf("owed")
        marked == UNION {Elems(extract_amounts(lines[i], TRUE)) : i \in owed}
        unmarked == UNION {Elems(Candidates(lines[i])) : i \in owed}
    IN  Done =>
          /\ marked # {} =>
                /\ AfterKeyword.printed_owe = Largest(marked)
                /\ Final.printed_owe = Largest(marked)
          /\ marked = {} /\ owed # {} =>
                /\ AfterKeyword.printed_owe = Largest(unmarked)
                /\ Final.printed_owe = Largest(unmarked)

(* C5 witness: one owed line with a currency-marked candidate and another     *)
(* owed line whose only candidate is plain and larger.                        *)
C5_Witness ==
    /\ Done
    /\ \E i, j \in LinesOf("owed") :
          /\ extract_amounts(lines[i], TRUE) # <<>>
          /\ extract_amounts(lines[j], TRUE) = <<>>
          /\ SeqMax(Candidates(lines[j])) > SeqMax(extract_amounts(lines[i], TRUE))
          /\ Final.printed_owe = SeqMax(extract_amounts(lines[i], TRUE))

(* the documents of C6: one billed line and one other, owed line, each with   *)
(* one amount; no allowed line, no insurer-paid line, no detail line          *)
C6_Document(b, p) ==
    /\ b # p
    /\ {i \in 1..Len(lines) : "billed" \in lines[i].kw} = {b}
    /\ {i \in 1..Len(lines) : "owed" \in lines[i].kw} = {p}
    /\ Len(Candidates(lines[b])) = 1 /\ Len(Candidates(lines[p])) = 1
    /\ \A i \in 1..Len(lines) : lines[i].kw \cap {"allowed", "paid"} = {}
    /\ NoDetailLine

(* C6: for such a document with amounts B and P the summary has               *)
(* billed_amount = B, printed_owe = P, allowed_amount = round(0.65 * B, 2)    *)
(* and estimated_overcharge = max(0, P - should_owe).                         *)
C6_BilledAndOwedOnly ==
    \A b, p \in 1..Len(lines) :
        Done /\ C6_Document(b, p) =>
            LET B == Candidates(lines[b])[1]
                P == Candidates(lines[p])[1]
            IN  /\ Final.billed_amount = B
                /\ Final.printed_owe = P
                /\ Final.allowed_amount = RoundCents(B * 13, 20)
                /\ Final.estimated_overcharge = Max2(0, P - Final.should_owe)

(* C6 witness: such a document whose billed amount exceeds the owed amount    *)
(* and leaves a positive overcharge.                                          *)
C6_Witness ==
    \E b, p \in 1..Len(lines) :
        /\ Done /\ C6_Document(b, p)
        /\ Final.billed_amount > Final.printed_owe
        /\ Final.estimated_overcharge > 0
        /\ Final.allowed_amount < Final.billed_amount

(* C7: in every summary should_owe = round(0.2 * allowed_amount, 2) when      *)
(* allowed_amount > 0 and billed_amount > allowed_amount, otherwise           *)
(* round(0.2 * 0.65 * billed_amount, 2) when billed_amount > 0, otherwise 0.  *)
C7_ShouldOweDerived ==
    Done =>
        Final.should_owe =
            IF Final.allowed_amount > 0 /\ Final.billed_amount > Final.allowed_amount
              THEN RoundCents(Final.allowed_amount, 5)
            ELSE IF Final.billed_amount > 0
              THEN RoundCents(Final.billed_amount * 13, 100)
            ELSE 0

(* C7 witness: a summary whose allowed amount was read from the document and  *)
(* is not below the billed amount, so the estimate branch applies.            *)
C7_Witness ==
    /\ Done
    /\ AfterKeyword.allowed_amount > 0
    /\ Final.billed_amount > 0 /\ Final.billed_amount <= Final.allowed_amount
    /\ Final.should_owe # RoundCents(Final.allowed_amount, 5)

(* what C8 says billed_amount becomes, for a printed_owe found before the     *)
(* fallback pass                                                              *)
C8_Expected(owe) ==
    LET window == {v \in Pool : v >= owe /\ v <= MarkupWindow * owe}
    IN  IF window # {} THEN Smallest(window) ELSE owe

(* C8 as stated: whenever the fallback pass is reached with billed_amount 0   *)
(* and printed_owe > 0, it sets billed_amount to the smallest pool value in   *)
(* [printed_owe, 5 * printed_owe], or to printed_owe if there is none,        *)
(* whatever the pool contains.                                                *)
C8_AnyPool ==
    Len(history) = 3 /\ AfterDetail.billed_amount = 0 /\ AfterDetail.printed_owe > 0
        => AfterFallback.billed_amount = C8_Expected(AfterDetail.printed_owe)

(* C8 amended: the same, provided the pool of amounts below 50,000 is not     *)
(* empty; with an empty pool billed_amount stays 0.                           *)
C8_NonEmptyPool ==
    Len(history) = 3 /\ AfterDetail.billed_amount = 0 /\ AfterDetail.printed_owe > 0
        => AfterFallback.billed_amount =
              IF Pool # {} THEN C8_Expected(AfterDetail.printed_owe) ELSE 0

(* C8 witness: the fallback pass ran with billed_amount 0, a printed_owe and  *)
(* a pool holding two values of the window, one of them larger than           *)
(* printed_owe.                                                               *)
C8_Witness ==
    /\ Len(history) = 3
    /\ AfterDetail.billed_amount = 0 /\ AfterDetail.printed_owe > 0
    /\ \E v \in Pool : v > AfterDetail.printed_owe /\ v <= MarkupWindow * AfterDetail.printed_owe
    /\ AfterDetail.printed_owe \in Pool
    /\ AfterFallback.billed_amount = AfterDetail.printed_owe

(* C9: after the keyword pass billed_amount, allowed_amount and insurer_paid  *)
(* each equal the largest candidate over the lines of the slot's keyword      *)
(* group that have a candidate, 0 if there is no such line; the value depends *)
(* on the set of lines only, not on their order.                              *)
C9_LargestProposal ==
    Len(history) >= 1 =>
        /\ AfterKeyword.billed_amount
             = LargestOrZero(UNION {Elems(Candidates(lines[i])) : i \in LinesOf("billed")})
        /\ AfterKeyword.allowed_amount
             = LargestOrZero(UNION {Elems(Candidates(lines[i])) : i \in LinesOf("allowed")})
        /\ AfterKeyword.insurer_paid
             = LargestOrZero(UNION {Elems(Candidates(lines[i])) : i \in LinesOf("paid")})

(* C9 witness: two billed lines, the earlier with the larger amount, which    *)
(* the keyword pass kept.                                                     *)
C9_Witness ==
    /\ Len(history) >= 1
    /\ \E i, j \in LinesOf("billed") :
          /\ i < j
          /\ SeqMax(Candidates(lines[i])) > SeqMax(Candidates(lines[j]))
          /\ AfterKeyword.billed_amount = SeqMax(Candidates(lines[i]))

(* C10: when the fallback pass is entered with billed_amount 0 and a          *)
(* non-empty pool of amounts below 50,000, the summary has billed_amount > 0, *)
(* printed_owe > 0 and billed_amount >= printed_owe.                          *)
C10_FallbackBilledCoversOwe ==
    Done /\ AfterDetail.billed_amount = 0 /\ Pool # {} =>
        /\ Final.billed_amount > 0
        /\ Final.printed_owe > 0
        /\ Final.billed_amount >= Final.printed_owe

(* C10 witness: the fallback pass filled both billed_amount and printed_owe   *)
(* from a pool of two different amounts.                                      *)
C10_Witness ==
    /\ Done /\ AfterDetail.billed_amount = 0 /\ AfterDetail.printed_owe = 0
    /\ Cardinality(Pool) >= 2
    /\ Final.billed_amount > Final.printed_owe /\ Final.printed_owe > 0

====
